---- MODULE Spec2Model ----
(***************************************************************************)
(* Model of the review / rating handlers (app/routers/reviews.py), of the   *)
(* product listing handler (app/routers/products.py) and of the category   *)
(* handlers (app/routers/categories.py).                                   *)
(*                                                                         *)
(* The store is a relational database reached through one session per      *)
(* request.  Every `await db....` of a handler is one atomic step against  *)
(* the committed store (read committed); handlers of different requests    *)
(* interleave at these steps.                                              *)
(***************************************************************************)
EXTENDS Integers, Sequences, FiniteSets, TLC

\* ------------------------------------------------------------------ bounds
NumProducts == 4        \* rows of the products table
MaxReviews  == 2        \* rows the reviews table may grow to
MaxPageSize == 2        \* largest valid page_size a listing client asks for
MaxCategories == 3      \* rows the categories table may grow to

\* ------------------------------------------------------- program constants
MinGrade == 1
MaxGrade == 5
PageSizeLimit == 100
None == -1              \* an absent (null) numeric parameter or column

VARIABLES
    products,   \* products table: id -> row
    reviews,    \* reviews table: sequence of rows, row i has primary key i
    req,        \* review requests: client -> handler position and locals
    listing,    \* the listing client: its query, the page reached, the rows seen
    categories, \* categories table: sequence of rows, row i has primary key i
    category_call   \* the last category request answered: its handler and outcome

vars == <<products, reviews, req, listing, categories, category_call>>

ProductIds == 1..NumProducts
Clients    == {1, 2}               \* the requests that may be in progress at once
NoProduct  == NumProducts + 1     \* an id no product row has
NoReview   == MaxReviews + 1      \* an id no review row has

\* ------------------------------------------------------------------- users
\* The users table is fixed: two buyers, two sellers, one administrator.
Users == 1..5

UserRole(u) ==
    CASE u \in {1, 2} -> "buyer"
      [] u \in {3, 4} -> "seller"
      [] OTHER        -> "admin"

\* app.auth.get_current_buyer: passes for role "buyer", raises 403 otherwise.
IsBuyer(u) == UserRole(u) = "buyer"

\* delete_review without its check of the caller's role
AlwaysAdmin(u) == TRUE

\* current_user.is_admin
IsAdmin(u) == UserRole(u) = "admin"

\* --------------------------------------------------------------- the catalog
\* The columns of product row `id` that no modelled handler writes.
ProductWords(id) ==
    CASE id % 4 = 1 -> <<"a">>
      [] id % 4 = 2 -> <<"a", "b">>
      [] id % 4 = 3 -> <<"b", "a", "a">>
      [] OTHER      -> <<"b">>

ProductRow(id, active) ==
    [is_active   |-> active,
     rating      |-> 0,
     price       |-> 1 + ((id \div 2) % 2),
     stock       |-> IF id % 3 = 0 THEN 0 ELSE id,
     category_id |-> 1 + (id % 2),
     seller_id   |-> IF id % 2 = 1 THEN 3 ELSE 4,
     words       |-> ProductWords(id)]

\* select(CategoryModel).where(CategoryModel.id == c, CategoryModel.is_active)
CategoryActive(c) == c \in 1..Len(categories) /\ categories[c].is_active

\* ------------------------------------------------------------------ ratings
\* A rating is held exactly, as RatingScale times its value: RatingScale is a
\* multiple of every possible number of reviews.
RECURSIVE Factorial(_)
Factorial(n) == IF n <= 1 THEN 1 ELSE n * Factorial(n - 1)

RatingScale == Factorial(MaxReviews)

ReviewIds == 1..Len(reviews)

\* WHERE product_id = :product_id AND is_active = true
ActiveReviewsOf(product_id) ==
    {r \in ReviewIds : reviews[r].product_id = product_id /\ reviews[r].is_active}

RECURSIVE SumGrades(_)
SumGrades(S) ==
    IF S = {} THEN 0
    ELSE LET r == CHOOSE x \in S : TRUE
         IN  reviews[r].grade + SumGrades(S \ {r})

\* select(func.avg(grade)).where(...).scalar() or 0.0
AvgRating(product_id) ==
    LET S == ActiveReviewsOf(product_id)
    IN  IF S = {} THEN 0 ELSE (SumGrades(S) * RatingScale) \div Cardinality(S)

\* select(ProductModel).where(ProductModel.id == review.product_id).first()
ProductFound(product_id) == product_id \in ProductIds

\* select(ReviewModel).where(product_id == ..., user_id == ...).first()
DoubleReview(user_id, product_id) ==
    \E r \in ReviewIds :
        reviews[r].product_id = product_id /\ reviews[r].user_id = user_id

\* select(ReviewModel).where(ReviewModel.id == review_id, ReviewModel.is_active).first()
ReviewFound(review_id) ==
    review_id \in ReviewIds /\ reviews[review_id].is_active

\* ----------------------------------------------------------------- requests
Idle == [pc |-> "idle", kind |-> "none", caller |-> 0, product_id |-> 0,
         grade |-> 0, review_id |-> 0, avg |-> 0, result |-> "none"]

Free(c) == req[c].pc \in {"idle", "done"}

\* The response of a finished request: its outcome and, when it changed the
\* reviews table, the row it changed.
Finished(r, result) ==
    IF result \in {"Created", "Deleted"}
    THEN [Idle EXCEPT !.pc = "done", !.kind = r.kind, !.result = result,
                      !.product_id = r.product_id, !.review_id = r.review_id]
    ELSE [Idle EXCEPT !.pc = "done", !.kind = r.kind, !.result = result]

\* review rows that requests in progress may still insert
PendingInserts ==
    Cardinality({c \in Clients : req[c].pc \in {"product_ok", "no_double"}})

\* the grades, product ids and review ids the modelled callers send
GradeInputs   == {MinGrade + 2, MaxGrade}
ProductInputs == {1, NoProduct}
ReviewInputs  == {1, 2, NoReview}
Reviewers     == {1, 2, 3}         \* callers of createReview: two buyers, a seller
Moderators    == {1, 5}            \* callers of deleteReview: a buyer, the administrator
Sellers       == {3, 5}            \* callers of delete_product: the seller, another user

\* ------------------------------------------------ create_review (POST /reviews)
\* Lines 50-59: the product lookup, then the buyer check.
create_review_select_product(c, u, product_id, g) ==
    /\ Free(c)
    /\ Len(reviews) + PendingInserts < MaxReviews
    /\ LET r == [Idle EXCEPT !.kind = "create", !.caller = u,
                             !.product_id = product_id, !.grade = g]
       IN  req' = [req EXCEPT ![c] =
                IF ~ProductFound(product_id) THEN Finished(r, "ProductNotFound")
                ELSE IF ~IsBuyer(u) THEN Finished(r, "ForbiddenRole")
                ELSE [r EXCEPT !.pc = "product_ok"]]
    /\ UNCHANGED <<products, reviews, listing, categories, category_call>>

\* Lines 61-72: the check that the caller has not reviewed the product yet.
create_review_select_double(c) ==
    /\ req[c].pc = "product_ok"
    /\ req' = [req EXCEPT ![c] =
            IF DoubleReview(req[c].caller, req[c].product_id)
            THEN Finished(req[c], "DuplicateReview")
            ELSE [req[c] EXCEPT !.pc = "no_double"]]
    /\ UNCHANGED <<products, reviews, listing, categories, category_call>>

\* Lines 74-77: db.add(db_review); commit; refresh.
create_review_commit(c) ==
    /\ req[c].pc = "no_double"
    /\ reviews' = Append(reviews,
            [user_id    |-> req[c].caller,
             product_id |-> req[c].product_id,
             grade      |-> req[c].grade,
             is_active  |-> TRUE])
    /\ req' = [req EXCEPT ![c].pc = "inserted", ![c].review_id = Len(reviews) + 1]
    /\ UNCHANGED <<products, listing, categories, category_call>>

\* update_product_rating, lines 25-30: the average of the committed rows.
update_product_rating_select(c) ==
    /\ req[c].pc = "inserted"
    /\ req' = [req EXCEPT ![c].pc = "averaged",
                          ![c].avg = AvgRating(req[c].product_id)]
    /\ UNCHANGED <<products, reviews, listing, categories, category_call>>

\* update_product_rating, lines 31-33: product.rating = avg_rating; commit.
\* Then create_review returns the review (line 80).
update_product_rating_commit(c) ==
    /\ req[c].pc = "averaged"
    /\ products' = [products EXCEPT ![req[c].product_id].rating = req[c].avg]
    /\ req' = [req EXCEPT ![c] = Finished(req[c], "Created")]
    /\ UNCHANGED <<reviews, listing, categories, category_call>>

\* --------------------------------------- delete_review (DELETE /reviews/{id})
\* Lines 90-100: the lookup of the active review, then the admin check.
delete_review_select(c, u, review_id) ==
    /\ Free(c)
    /\ LET r == [Idle EXCEPT !.kind = "delete", !.caller = u,
                             !.review_id = review_id]
       IN  req' = [req EXCEPT ![c] =
                IF ~ReviewFound(review_id) THEN Finished(r, "ReviewNotFound")
                ELSE IF ~IsAdmin(u) THEN Finished(r, "ForbiddenRole")
                ELSE [r EXCEPT !.pc = "review_ok",
                               !.product_id = reviews[review_id].product_id]]
    /\ UNCHANGED <<products, reviews, listing, categories, category_call>>

\* Lines 102-105: db_review.is_active = False; commit; refresh; return.
delete_review_commit(c) ==
    /\ req[c].pc = "review_ok"
    /\ reviews' = [reviews EXCEPT ![req[c].review_id].is_active = FALSE]
    /\ req' = [req EXCEPT ![c] = Finished(req[c], "Deleted")]
    /\ UNCHANGED <<products, listing, categories, category_call>>

\* A request in progress is abandoned by its caller, or loses the store, while
\* it waits at an await: nothing more of the handler runs, and what its session
\* has not committed is rolled back.
abandon(c) ==
    /\ ~Free(c)
    /\ req' = [req EXCEPT ![c] = Finished(req[c], "Abandoned")]
    /\ UNCHANGED <<products, reviews, listing, categories, category_call>>

\* ------------------------------------- delete_product (DELETE /products/{id})
\* products.py lines 227-250: the product must be active, the caller its
\* seller and its category active; then product.is_active = False; commit.
delete_product(u, product_id) ==
    /\ product_id \in ProductIds
    /\ products[product_id].is_active
    /\ products[product_id].seller_id = u
    /\ CategoryActive(products[product_id].category_id)
    /\ products' = [products EXCEPT ![product_id].is_active = FALSE]
    /\ UNCHANGED <<reviews, req, listing, categories, category_call>>

\* --------------------------------------------------- categories (/categories)
\* The handlers of categories.py use the synchronous session inside async
\* functions that never await: each runs to its response in one step.
NoCategory == MaxCategories + 1     \* an id no category row has
NoCall == [kind |-> "none", status |-> "none"]

CategoryRow(name, parent_id) ==
    [name |-> name, parent_id |-> parent_id, is_active |-> TRUE]

\* The two root categories the products of the catalog belong to.
RootCategories == <<CategoryRow("books", None), CategoryRow("games", None)>>

\* the names, category ids and parent ids the modelled callers send
NameInputs     == {"books", "games"}
CategoryInputs == (1..MaxCategories) \cup {NoCategory}
ParentInputs   == {None, 1, 2, NoCategory}

\* categories.py lines 23-37.
create_category(name, parent_id) ==
    /\ Len(categories) < MaxCategories
    /\ IF parent_id # None /\ ~CategoryActive(parent_id)
       THEN /\ category_call' = [kind |-> "create", status |-> "ParentNotFound"]
            /\ UNCHANGED categories
       ELSE /\ categories' = Append(categories, CategoryRow(name, parent_id))
            /\ category_call' = [kind |-> "create", status |-> "OK"]
    /\ UNCHANGED <<products, reviews, req, listing>>

\* categories.py lines 40-68.  Line 48 tests the request body, which is never
\* empty, so a category that is not found stops nothing there; lines 53-55
\* look the category itself up again where the parent is meant.  The UPDATE of
\* lines 61-66 names the row by id alone and is committed before
\* db.refresh(category_db) raises on a category_db that is None.
update_category(category_id, name, parent_id) ==
    IF parent_id # None /\ ~CategoryActive(category_id)
    THEN /\ category_call' = [kind |-> "update", status |-> "CategoryNotFound"]
         /\ UNCHANGED <<categories, products, reviews, req, listing>>
    ELSE /\ categories' =
                IF category_id \in 1..Len(categories)
                THEN [categories EXCEPT ![category_id].name = name,
                                        ![category_id].parent_id = parent_id]
                ELSE categories
         /\ category_call' =
                [kind |-> "update",
                 status |-> IF CategoryActive(category_id) THEN "OK"
                            ELSE "InternalServerError"]
         /\ UNCHANGED <<products, reviews, req, listing>>

\* categories.py lines 71-83.
delete_category(category_id) ==
    /\ IF ~CategoryActive(category_id)
       THEN /\ category_call' = [kind |-> "delete", status |-> "CategoryNotFound"]
            /\ UNCHANGED categories
       ELSE /\ categories' = [categories EXCEPT ![category_id].is_active = FALSE]
            /\ category_call' = [kind |-> "delete", status |-> "OK"]
    /\ UNCHANGED <<products, reviews, req, listing>>

\* ------------------------------------------- get_all_products (GET /products)
NoSearch == <<>>                \* search absent (or empty): `if search:` fails

Range(seq) == {seq[i] : i \in 1..Len(seq)}

\* str.strip() of a search string, held as a sequence of tokens: a token is a
\* word or " ", a run of white space.
RECURSIVE Strip(_)
Strip(s) ==
    IF s = <<>> THEN s
    ELSE IF Head(s) = " " THEN Strip(Tail(s))
    ELSE IF s[Len(s)] = " " THEN Strip(SubSeq(s, 1, Len(s) - 1))
    ELSE s

\* Lines 63-65: the search term the statement is built from, <<>> when the
\* listing is not ranked.
SearchValue(q) == IF q.search # NoSearch THEN Strip(q.search) ELSE <<>>

\* websearch_to_tsquery('english', search_value): the words, all required.
TsQuery(search_value) == Range(search_value) \ {" "}

\* ProductModel.tsv @@ ts_query
TsMatch(id, ts_query) == \A w \in ts_query : w \in Range(products[id].words)

\* ts_rank_cd(ProductModel.tsv, ts_query): grows with the occurrences of the
\* query's words in the product's text.
Rank(id, ts_query) ==
    Cardinality({i \in 1..Len(products[id].words) : products[id].words[i] \in ts_query})

\* Lines 46-57: the filters every listing carries.
BaseFilters(q, id) ==
    /\ products[id].is_active
    /\ q.category_id # None => products[id].category_id = q.category_id
    /\ q.min_price # None => products[id].price >= q.min_price
    /\ q.max_price # None => products[id].price <= q.max_price
    /\ q.in_stock = "true" => products[id].stock > 0
    /\ q.in_stock = "false" => products[id].stock = 0
    /\ q.seller_id # None => products[id].seller_id = q.seller_id

\* Lines 63-67: the filters after the full-text condition is appended.
SearchFilters(q, id) ==
    /\ BaseFilters(q, id)
    /\ SearchValue(q) # <<>> => TsMatch(id, TsQuery(SearchValue(q)))

\* total_stmt left as line 60 built it, before the full-text condition
TotalFiltersBeforeSearch(q, id) == BaseFilters(q, id)

\* Lines 60 and 70: the filters of total_stmt when it is executed.
TotalFilters(q, id) == SearchFilters(q, id)

\* Lines 78 and 91: the filters of products_stmt.
PageFilters(q, id) == SearchFilters(q, id)

\* desc() applied to the whole ordering: ties by id descending
OrderByRankDescIdDesc(q, a, b) ==
    LET tsq == TsQuery(SearchValue(q))
    IN  IF SearchValue(q) # <<>>
        THEN \/ Rank(a, tsq) > Rank(b, tsq)
             \/ Rank(a, tsq) = Rank(b, tsq) /\ a > b
        ELSE a < b

\* Lines 79 and 92: row a is ordered before row b.
OrderBy(q, a, b) ==
    LET tsq == TsQuery(SearchValue(q))
    IN  IF SearchValue(q) # <<>>
        THEN \/ Rank(a, tsq) > Rank(b, tsq)
             \/ Rank(a, tsq) = Rank(b, tsq) /\ a < b
        ELSE a < b

RECURSIVE Sorted(_, _)
Sorted(q, S) ==
    IF S = {} THEN <<>>
    ELSE LET first == CHOOSE a \in S : \A b \in S \ {a} : OrderBy(q, a, b)
         IN  <<first>> \o Sorted(q, S \ {first})

\* Lines 80 and 93: .offset((page - 1) * page_size)
Offset(page, page_size) == (page - 1) * page_size

\* .offset(o).limit(n) over the ordered rows
Window(rows, o, n) ==
    SubSeq(rows, o + 1, IF o + n < Len(rows) THEN o + n ELSE Len(rows))

\* The response, and the statements the handler sent to the store for it.
Response(status, items, total, page, page_size, statements) ==
    [status |-> status, items |-> items, total |-> total,
     page |-> page, page_size |-> page_size, statements |-> statements]

\* page_size declared Query(20, ge=1) only
PaginationWithoutUpperLimit(q, page) == page < 1 \/ q.page_size < 1

\* Lines 30-31: page: Query(1, ge=1), page_size: Query(20, ge=1, le=100),
\* checked before the handler body runs.
InvalidPagination(q, page) ==
    page < 1 \/ q.page_size < 1 \/ q.page_size > PageSizeLimit

\* Line 40.
InvalidRange(q) ==
    q.min_price # None /\ q.max_price # None /\ q.min_price > q.max_price

\* Lines 29-103: total_stmt is executed at line 72, products_stmt at line 83
\* or 96.
get_all_products(q, page) ==
    IF InvalidPagination(q, page)
    THEN Response("InvalidPagination", <<>>, 0, page, q.page_size, 0)
    ELSE IF InvalidRange(q)
    THEN Response("InvalidRange", <<>>, 0, page, q.page_size, 0)
    ELSE LET total == Cardinality({id \in ProductIds : TotalFilters(q, id)})
             rows  == Sorted(q, {id \in ProductIds : PageFilters(q, id)})
         IN  Response("OK", Window(rows, Offset(page, q.page_size), q.page_size),
                      total, page, q.page_size, 2)

\* The queries the listing client sends.
Queries ==
    [category_id : {None, 1, 2},
     min_price   : {None, 2},
     max_price   : {None, 1},
     in_stock    : {"none", "true", "false"},
     seller_id   : {None, 3, 4},
     search      : {NoSearch, <<" ">>, <<" ", "a">>, <<"a", " ", "b", " ">>},
     page_size   : (0..MaxPageSize) \cup {PageSizeLimit + 1}]

NoListing == [pc |-> "none", q |-> 0, page |-> 0, items |-> <<>>,
              first_total |-> 0, resp |-> 0]

\* The client sends a query for its first page (page 0 is its invalid input).
list_first_page(q, page) ==
    /\ listing.pc = "none"
    /\ LET r == get_all_products(q, page)
       IN  listing' = [pc |-> IF r.status # "OK" THEN "failed"
                              ELSE IF r.items = <<>> THEN "end" ELSE "paging",
                       q |-> q, page |-> page, items |-> r.items,
                       first_total |-> r.total, resp |-> r]
    /\ UNCHANGED <<products, reviews, req, categories, category_call>>

\* The client sends the same query for the next page, until a page is empty.
list_next_page ==
    /\ listing.pc = "paging"
    /\ LET r == get_all_products(listing.q, listing.page + 1)
       IN  listing' = [listing EXCEPT
                !.pc = IF r.items = <<>> THEN "end" ELSE "paging",
                !.page = listing.page + 1,
                !.items = listing.items \o r.items,
                !.resp = r]
    /\ UNCHANGED <<products, reviews, req, categories, category_call>>

InitList ==
    /\ \E active \in [ProductIds -> BOOLEAN] :
            products = [id \in ProductIds |-> ProductRow(id, active[id])]
    /\ reviews = <<>>
    /\ req = [c \in Clients |-> Idle]
    /\ listing = NoListing
    /\ categories = RootCategories
    /\ category_call = NoCall

NextList ==
    \/ \E q \in Queries, page \in {0, 1} : list_first_page(q, page)
    \/ list_next_page

SpecList == InitList /\ [][NextList]_vars


Init ==
    /\ products = [id \in ProductIds |-> ProductRow(id, TRUE)]
    /\ reviews = <<>>
    /\ req = [c \in Clients |-> Idle]
    /\ listing = NoListing
    /\ categories = RootCategories
    /\ category_call = NoCall

\* The handlers' steps, every request running on to its response.
NextCalls ==
    \/ \E c \in Clients, u \in Reviewers, p \in ProductInputs, g \in GradeInputs :
            create_review_select_product(c, u, p, g)
    \/ \E c \in Clients : create_review_select_double(c)
    \/ \E c \in Clients : create_review_commit(c)
    \/ \E c \in Clients : update_product_rating_select(c)
    \/ \E c \in Clients : update_product_rating_commit(c)
    \/ \E c \in Clients, u \in Moderators, r \in ReviewInputs :
            delete_review_select(c, u, r)
    \/ \E c \in Clients : delete_review_commit(c)
    \/ \E u \in Sellers, p \in ProductInputs : delete_product(u, p)

Next ==
    \/ NextCalls
    \/ \E c \in Clients : abandon(c)

\* Requests that may be abandoned half way.
Spec == Init /\ [][Next]_vars

\* Requests that all run on to their response.
SpecCalls == Init /\ [][NextCalls]_vars

NextCat ==
    \/ \E n \in NameInputs, p \in ParentInputs : create_category(n, p)
    \/ \E c \in CategoryInputs, n \in NameInputs, p \in ParentInputs :
            update_category(c, n, p)
    \/ \E c \in CategoryInputs : delete_category(c)

\* Category requests over the two root categories.
SpecCat == Init /\ [][NextCat]_vars

\* =================================================================== claims
\* The product's stored rating is the mean grade of its active reviews, 0 when
\* it has none (ratings are held as RatingScale times their value).
RatingIsMean(product_id) ==
    LET S == {r \in 1..Len(reviews) :
                reviews[r].product_id = product_id /\ reviews[r].is_active = TRUE}
    IN  IF S = {} THEN products[product_id].rating = 0
        ELSE products[product_id].rating * Cardinality(S)
                = SumGrades(S) * RatingScale

Quiescent == \A c \in Clients : Free(c)

\* C1: in every quiescent state (no request in progress), each product's
\* stored rating is the mean grade of its active reviews, and 0 when it has no
\* active review.
C1_RatingIsMeanWhenQuiescent ==
    Quiescent => \A p \in ProductIds : RatingIsMean(p)

\* C2: when a successful deleteReview of an active review returns, the
\* product's rating is the mean grade of the product's remaining active
\* reviews, or 0 if none remain.
C2_DeleteRecomputesRating ==
    [][\A c \in Clients :
        (req[c].pc = "review_ok" /\ req'[c].result = "Deleted")
            => RatingIsMean(req[c].product_id)']_vars

\* C3: the review mutation and the write of the recomputed rating are one
\* commit: every committed state that holds a changed set of active reviews of
\* a product holds the rating recomputed from it, and a request abandoned after
\* its mutation step leaves no review row behind.
C3_MutationAndRatingInOneTransaction ==
    [][/\ \A p \in ProductIds :
            ActiveReviewsOf(p)' # ActiveReviewsOf(p) => RatingIsMean(p)'
       /\ \A c \in Clients :
            (req[c].kind = "create" /\ req'[c].result = "Abandoned")
                => Len(reviews') < req[c].review_id \/ req[c].review_id = 0]_vars

\* C4: once two createReview calls by two different users on the same product
\* have both completed, the product's rating is the mean of its active reviews,
\* both new reviews included.
C4_NoLostRatingUpdate ==
    \A c, d \in Clients :
        (/\ c # d
         /\ req[c].result = "Created" /\ req[d].result = "Created"
         /\ req[c].product_id = req[d].product_id
         /\ reviews[req[c].review_id].user_id # reviews[req[d].review_id].user_id)
            => RatingIsMean(req[c].product_id)

\* C5: in every reachable state there is at most one active review per
\* (user_id, product_id) pair.
C5_OneActiveReviewPerUserAndProduct ==
    \A r, t \in 1..Len(reviews) :
        (/\ r # t
         /\ reviews[r].is_active /\ reviews[t].is_active
         /\ reviews[r].user_id = reviews[t].user_id)
            => reviews[r].product_id # reviews[t].product_id

HasActiveReview(user_id, product_id) ==
    \E r \in 1..Len(reviews) :
        /\ reviews[r].user_id = user_id
        /\ reviews[r].product_id = product_id
        /\ reviews[r].is_active

\* C6: the duplicate check of createReview fails with DuplicateReview exactly
\* when the caller has an active review on the product: a caller whose earlier
\* review was soft-deleted passes it.
C6_DuplicateOnlyAgainstActiveReview ==
    [][\A c \in Clients :
        (req[c].pc = "product_ok" /\ req'[c].pc # "product_ok"
                                  /\ req'[c].result # "Abandoned")
            => (req'[c].result = "DuplicateReview"
                    <=> HasActiveReview(req[c].caller, req[c].product_id))]_vars

\* C7: createReview on a product that does not exist or is soft-deleted fails
\* with ProductNotFound, and inserts no review row and changes no rating.
C7_CreateOnMissingOrInactiveProductFails ==
    [][\A c \in Clients, u \in Reviewers, p \in ProductInputs, g \in GradeInputs :
        (/\ create_review_select_product(c, u, p, g)
         /\ p \notin ProductIds \/ ~products[p].is_active)
            => /\ req'[c].result = "ProductNotFound"
               /\ reviews' = reviews
               /\ products' = products]_vars

\* C8: deleteReview fails with ReviewNotFound when the review does not exist or
\* is inactive, and with ForbiddenRole when the caller is not an administrator;
\* a failing deleteReview changes no is_active flag and no rating, and a review
\* turns inactive only in a deleteReview of an administrator.
C8_DeleteReviewGuards ==
    [][/\ \A c \in Clients :
            (Free(c) /\ req'[c] # req[c] /\ req'[c].kind = "delete") =>
                \A u \in Moderators, r \in ReviewInputs :
                    delete_review_select(c, u, r) =>
                        /\ (r > Len(reviews) \/ ~reviews[r].is_active)
                                => req'[c].result = "ReviewNotFound"
                        /\ (/\ r <= Len(reviews) /\ reviews[r].is_active
                            /\ UserRole(u) # "admin")
                                => req'[c].result = "ForbiddenRole"
       /\ \A c \in Clients :
            (/\ req'[c] # req[c]
             /\ req'[c].kind = "delete"
             /\ req'[c].result \in {"ReviewNotFound", "ForbiddenRole"})
                => reviews' = reviews /\ products' = products
       /\ \A r \in 1..Len(reviews) :
            (reviews[r].is_active /\ ~reviews'[r].is_active) =>
                \E c \in Clients :
                    /\ req[c].kind = "delete"
                    /\ req[c].review_id = r
                    /\ UserRole(req[c].caller) = "admin"
                    /\ req'[c].result = "Deleted"]_vars

\* C8's case: a deleteReview refused for the caller's role and a deleteReview
\* of an inactive review, after an administrator soft-deleted a review.
C8_Witness ==
    /\ \E c \in Clients : req[c].kind = "delete" /\ req[c].result = "ForbiddenRole"
    /\ \E c \in Clients : req[c].kind = "delete" /\ req[c].result = "ReviewNotFound"
    /\ \E r \in 1..Len(reviews) : ~reviews[r].is_active
    /\ \E r \in 1..Len(reviews) : reviews[r].is_active

\* The products a query selects, as the interface states it: the active
\* products that pass every filter given and, when the search is not blank,
\* hold every word of it.
Selected(q) ==
    {id \in ProductIds :
        /\ products[id].is_active = TRUE
        /\ q.category_id = None \/ products[id].category_id = q.category_id
        /\ q.min_price = None \/ ~(products[id].price < q.min_price)
        /\ q.max_price = None \/ ~(products[id].price > q.max_price)
        /\ q.in_stock = "none" \/ (q.in_stock = "true" <=> products[id].stock >= 1)
        /\ q.seller_id = None \/ products[id].seller_id = q.seller_id
        /\ \A i \in 1..Len(q.search) :
                q.search[i] = " " \/
                    \E j \in 1..Len(products[id].words) :
                        products[id].words[j] = q.search[i]}

Blank(search) == \A i \in 1..Len(search) : search[i] = " "

\* the relevance score of a product for the words of a search
Score(q, id) == Rank(id, {w \in Range(q.search) : w # " "})

\* C9: the total of every page of a listing is the number of active products
\* that satisfy the filters and the search that select its items, the same on
\* every page; the rows of the pages are such products, total of them in all.
C9_TotalCountsTheSelectedProducts ==
    listing.pc \in {"paging", "end"} =>
        /\ listing.resp.total = Cardinality(Selected(listing.q))
        /\ listing.resp.total = listing.first_total
        /\ Range(listing.resp.items) \subseteq Selected(listing.q)
        /\ listing.pc = "end" => Cardinality(Range(listing.items)) = listing.resp.total

\* C9's case: a listing with a search that narrows the filtered products, read
\* to its end over more than one page.
C9_Witness ==
    /\ listing.pc = "end"
    /\ ~Blank(listing.q.search)
    /\ listing.q.in_stock # "none"
    /\ listing.page > 2
    /\ listing.resp.total >= 2
    /\ listing.resp.total <
            Cardinality(Selected([listing.q EXCEPT !.search = NoSearch]))

\* C10: the pages of a listing, concatenated, hold every selected product
\* exactly once, by score descending then id ascending under a search that is
\* not blank, by id ascending otherwise.
C10_PagesPartitionTheOrderedRows ==
    listing.pc \in {"paging", "end"} =>
        /\ \A i, j \in 1..Len(listing.items) :
                i < j =>
                    LET a == listing.items[i]
                        b == listing.items[j]
                    IN  IF Blank(listing.q.search) THEN a < b
                        ELSE \/ Score(listing.q, a) > Score(listing.q, b)
                             \/ Score(listing.q, a) = Score(listing.q, b) /\ a < b
        /\ Range(listing.items) \subseteq Selected(listing.q)
        /\ listing.pc = "end" => Range(listing.items) = Selected(listing.q)

\* C10's case: a ranked listing read to its end one row a page, two rows of
\* equal score on neighbouring pages, after a row of higher score and id.
C10_Witness ==
    /\ listing.pc = "end"
    /\ ~Blank(listing.q.search)
    /\ listing.q.page_size = 1
    /\ \E i \in 1..(Len(listing.items) - 2) :
            /\ Score(listing.q, listing.items[i]) > Score(listing.q, listing.items[i + 1])
            /\ listing.items[i] > listing.items[i + 1]
            /\ Score(listing.q, listing.items[i + 1])
                    = Score(listing.q, listing.items[i + 2])

\* C11: a listing with min_price > max_price fails with InvalidRange, one with
\* page < 1 or page_size outside 1..PageSizeLimit fails with InvalidPagination
\* (which comes first when both hold), and neither sends a statement to the
\* store; a listing that is answered sent its count and its page statement.
C11_InputErrorsBeforeAnyQuery ==
    listing.pc # "none" =>
        LET q == listing.q
            badPage  == listing.page <= 0 \/ q.page_size <= 0
                            \/ q.page_size >= PageSizeLimit + 1
            badRange == q.min_price >= 0 /\ q.max_price >= 0
                            /\ q.max_price < q.min_price
        IN  /\ badPage => listing.resp.status = "InvalidPagination"
            /\ (badRange /\ ~badPage) => listing.resp.status = "InvalidRange"
            /\ (badRange \/ badPage) =>
                    /\ listing.pc = "failed"
                    /\ listing.resp.statements = 0
                    /\ listing.resp.items = <<>>
            /\ listing.resp.statements > 0 => ~badRange /\ ~badPage

\* C11's case: a listing refused for its price range, its paging being valid.
C11_Witness ==
    /\ listing.pc = "failed"
    /\ listing.resp.status = "InvalidRange"
    /\ listing.q.min_price > listing.q.max_price
    /\ listing.q.page_size \in 1..PageSizeLimit
    /\ listing.resp.statements = 0

\* C12: a createCategory or updateCategory with a non-null parent_id stores
\* something only if that parent_id names a category active at the time, so
\* no stored parent_id names a missing or soft-deleted category; and an
\* updateCategory of a missing or soft-deleted category fails with
\* CategoryNotFound and stores nothing.
C12_ParentAndCategoryValidated ==
    [][/\ category_call'.kind \in {"create", "update"} =>
            \A c \in 1..Len(categories') :
                (/\ c > Len(categories) \/ categories'[c] # categories[c]
                 /\ categories'[c].parent_id # None)
                    => LET parent == categories'[c].parent_id
                       IN  /\ parent <= Len(categories)
                           /\ categories[parent].is_active
       /\ \A c \in CategoryInputs, n \in NameInputs, p \in ParentInputs :
            (/\ update_category(c, n, p)
             /\ c > Len(categories) \/ ~categories[c].is_active)
                => /\ category_call'.status = "CategoryNotFound"
                   /\ categories' = categories]_vars

====
